---------------------------- MODULE Spec2Model ----------------------------
(***************************************************************************)
(* A model of rustlink's Chainlink price-feed client                       *)
(* (src/interface/mod.rs): ChainlinkContract::new, which resolves the      *)
(* feed's decimals under a timeout, and latest_round_data, which fetches   *)
(* the latest round under the same timeout and normalises its answer.      *)
(*                                                                         *)
(* Wide integers (U256, u128) are little-endian sequences of 15-bit limbs  *)
(* without leading zeros, since they exceed 32-bit integers.  An f64 is    *)
(* [sign, mant, exp] with value (-1)^sign * mant * 2^exp, mant either <<>> *)
(* (zero) or a wide integer of exactly 53 bits.  Every f64 the program can *)
(* produce here is zero or normal (u128 answers, scales of at most 255),   *)
(* so subnormals, infinities and NaN are not represented.                  *)
(***************************************************************************)
EXTENDS Integers, Sequences, FiniteSets

(***************************************************************************)
(* Wide unsigned integers (U256, u128, the 53-bit significand of an f64).  *)
(***************************************************************************)
LimbBits == 15

LimbBase == 2^LimbBits

RECURSIVE Trim(_)
Trim(a) ==
  IF a = <<>> THEN <<>>
  ELSE IF a[Len(a)] # 0 THEN a ELSE Trim(SubSeq(a, 1, Len(a) - 1))

\* a wide integer from a small natural
RECURSIVE WideOfNat(_)
WideOfNat(n) ==
  IF n = 0 THEN <<>> ELSE <<n % LimbBase>> \o WideOfNat(n \div LimbBase)

RECURSIVE AddCarry(_, _, _)
AddCarry(a, b, c) ==
  IF a = <<>> /\ b = <<>> THEN (IF c = 0 THEN <<>> ELSE <<c>>)
  ELSE LET x == IF a = <<>> THEN 0 ELSE Head(a)
           y == IF b = <<>> THEN 0 ELSE Head(b)
           s == x + y + c
       IN <<s % LimbBase>> \o AddCarry(IF a = <<>> THEN <<>> ELSE Tail(a),
                                       IF b = <<>> THEN <<>> ELSE Tail(b),
                                       s \div LimbBase)

AddW(a, b) == AddCarry(a, b, 0)

\* -1, 0, 1 as a < b, a = b, a > b
RECURSIVE CmpFrom(_, _, _)
CmpFrom(a, b, i) ==
  IF i = 0 THEN 0
  ELSE IF a[i] > b[i] THEN 1
  ELSE IF a[i] < b[i] THEN -1
  ELSE CmpFrom(a, b, i - 1)

CmpW(a, b) ==
  IF Len(a) > Len(b) THEN 1
  ELSE IF Len(a) < Len(b) THEN -1
  ELSE CmpFrom(a, b, Len(a))

\* a - b for a >= b, before trimming
RECURSIVE SubBorrow(_, _, _)
SubBorrow(a, b, c) ==
  IF a = <<>> THEN <<>>
  ELSE LET y == IF b = <<>> THEN 0 ELSE Head(b)
           d == Head(a) - y - c
       IN <<d % LimbBase>> \o SubBorrow(Tail(a),
                                        IF b = <<>> THEN <<>> ELSE Tail(b),
                                        IF d < 0 THEN 1 ELSE 0)

SubW(a, b) == Trim(SubBorrow(a, b, 0))

\* a * k + c for k, c < LimbBase
RECURSIVE MulSmall(_, _, _)
MulSmall(a, k, c) ==
  IF a = <<>> THEN (IF c = 0 THEN <<>> ELSE <<c>>)
  ELSE LET p == Head(a) * k + c
       IN <<p % LimbBase>> \o MulSmall(Tail(a), k, p \div LimbBase)

RECURSIVE MulW(_, _)
MulW(a, b) ==
  IF a = <<>> \/ b = <<>> THEN <<>>
  ELSE LET rest == MulW(Tail(a), b)
       IN AddW(Trim(MulSmall(b, Head(a), 0)),
               IF rest = <<>> THEN <<>> ELSE <<0>> \o rest)

\* [q, r] with a = q * k + r for 0 < k <= LimbBase, limbs i..Len(a) of a
RECURSIVE DivSmallFrom(_, _, _)
DivSmallFrom(a, k, i) ==
  IF i > Len(a) THEN [q |-> <<>>, r |-> 0]
  ELSE LET up  == DivSmallFrom(a, k, i + 1)
           cur == up.r * LimbBase + a[i]
       IN [q |-> <<cur \div k>> \o up.q, r |-> cur % k]

DivSmall(a, k) ==
  LET x == DivSmallFrom(a, k, 1) IN [q |-> Trim(x.q), r |-> x.r]

RECURSIVE BitLenNat(_)
BitLenNat(n) == IF n = 0 THEN 0 ELSE 1 + BitLenNat(n \div 2)

BitLen(a) ==
  IF a = <<>> THEN 0 ELSE LimbBits * (Len(a) - 1) + BitLenNat(a[Len(a)])

\* bit i of a, bit 0 the least significant
TestBit(a, i) ==
  LET l == i \div LimbBits + 1
  IN IF l > Len(a) THEN 0 ELSE (a[l] \div 2^(i % LimbBits)) % 2

RECURSIVE ZeroLimbs(_)
ZeroLimbs(k) == IF k = 0 THEN <<>> ELSE <<0>> \o ZeroLimbs(k - 1)

ShiftLeft(a, k) ==
  IF a = <<>> THEN <<>>
  ELSE ZeroLimbs(k \div LimbBits) \o MulSmall(a, 2^(k % LimbBits), 0)

ShiftRight(a, k) ==
  IF k \div LimbBits >= Len(a) THEN <<>>
  ELSE DivSmall(SubSeq(a, k \div LimbBits + 1, Len(a)), 2^(k % LimbBits)).q

\* a mod 2^k
LowBits(a, k) == SubW(a, ShiftLeft(ShiftRight(a, k), k))

\* a small wide integer as a natural
RECURSIVE NatOfWide(_)
NatOfWide(a) ==
  IF a = <<>> THEN 0 ELSE Head(a) + LimbBase * NatOfWide(Tail(a))

\* restoring division, one bit of n per step from the most significant:
\* steps lo..hi (bit numbers, descending) applied to st = [q, r]
RECURSIVE DivSteps(_, _, _, _, _)
DivSteps(n, d, hi, lo, st) ==
  IF st.r = st.r /\ hi = lo
  THEN LET r2 == AddCarry(st.r, st.r, TestBit(n, hi))
           q2 == AddW(st.q, st.q)
       IN IF CmpW(r2, d) >= 0
          THEN [q |-> AddCarry(st.q, st.q, 1), r |-> SubW(r2, d)]
          ELSE [q |-> q2, r |-> r2]
  ELSE LET mid == (hi + lo + 1) \div 2
       IN DivSteps(n, d, mid - 1, lo, DivSteps(n, d, hi, mid, st))

\* [q, r] with n = q * d + r, for d # 0
DivModW(n, d) ==
  IF n = <<>> THEN [q |-> <<>>, r |-> <<>>]
  ELSE DivSteps(n, d, BitLen(n) - 1, 0, [q |-> <<>>, r |-> <<>>])

\* a wide integer from its decimal digits, most significant first
RECURSIVE FromDigits(_, _)
FromDigits(ds, acc) ==
  IF ds = <<>> THEN acc
  ELSE FromDigits(Tail(ds), MulSmall(acc, 10, Head(ds)))

Wide(ds) == FromDigits(ds, <<>>)

(***************************************************************************)
(* u128::to_string and str::parse::<f64> (line 100), f64 division and      *)
(* f64::powi (line 103).                                                   *)
(***************************************************************************)
DigitChar == <<"0", "1", "2", "3", "4", "5", "6", "7", "8", "9">>

DigitOf(c) == CHOOSE d \in 0..9 : DigitChar[d + 1] = c

IsDigit(c) == \E d \in 0..9 : DigitChar[d + 1] = c

RECURSIVE DecimalDigits(_)
DecimalDigits(a) ==
  IF a = <<>> THEN <<>>
  ELSE LET x == DivSmall(a, 10)
       IN DecimalDigits(x.q) \o <<DigitChar[x.r + 1]>>

\* u128's Display: the decimal digits, "0" for zero, never a sign
to_string(u) == IF u = <<>> THEN <<"0">> ELSE DecimalDigits(u)

\* the 53 or 54 bits m that rounding left, times 2^e, as an f64
Renormalize(sign, m, e) ==
  IF BitLen(m) = 54
  THEN [sign |-> sign, mant |-> ShiftRight(m, 1), exp |-> e + 1]
  ELSE [sign |-> sign, mant |-> m, exp |-> e]

\* ties to even: kept are the bits retained, half the first bit dropped,
\* rest whether anything below it is nonzero
RoundUp(kept, half, rest) ==
  IF half /\ (rest \/ TestBit(kept, 0) = 1) THEN AddW(kept, <<1>>) ELSE kept

\* RoundNearestEven for n # <<>> of the given bit length
RoundBits(sign, n, e, sticky, bits) ==
  IF bits <= 53
  THEN [sign |-> sign, mant |-> ShiftLeft(n, 53 - bits),
        exp |-> e - (53 - bits)]
  ELSE Renormalize(sign,
                   RoundUp(ShiftRight(n, bits - 53),
                           TestBit(n, bits - 54) = 1,
                           sticky \/ LowBits(n, bits - 54) # <<>>),
                   e + (bits - 53))

\* round n * 2^e (plus a nonzero residue below n's last bit when sticky)
\* to the nearest f64, ties to even
RoundNearestEven(sign, n, e, sticky) ==
  IF n = <<>> THEN [sign |-> sign, mant |-> <<>>, exp |-> 0]
  ELSE RoundBits(sign, n, e, sticky, BitLen(n))

RECURSIVE DigitsValue(_, _)
DigitsValue(cs, acc) ==
  IF cs = <<>> THEN acc
  ELSE DigitsValue(Tail(cs), MulSmall(acc, 10, DigitOf(Head(cs))))

\* str::parse::<f64> on an optionally signed run of decimal digits: Ok with
\* the correctly rounded value, Err on anything else
ParseF64(s) ==
  LET neg == s # <<>> /\ Head(s) = "-"
      ds  == IF neg THEN Tail(s) ELSE s
  IN IF ds = <<>> \/ \E i \in 1..Len(ds) : ~IsDigit(ds[i])
     THEN [ok |-> FALSE]
     ELSE [ok |-> TRUE,
           value |-> RoundNearestEven(IF neg THEN 1 ELSE 0,
                                      Trim(DigitsValue(ds, <<>>)), 0, FALSE)]

F64Mul(x, y) ==
  RoundNearestEven((x.sign + y.sign) % 2, MulW(x.mant, y.mant),
                   x.exp + y.exp, FALSE)

\* x / y for y # 0: 55 extra bits of quotient, the remainder as the sticky bit
F64Div(x, y) ==
  LET d == DivModW(ShiftLeft(x.mant, 55), y.mant)
  IN RoundNearestEven((x.sign + y.sign) % 2, d.q, x.exp - y.exp - 55,
                      d.r # <<>>)

F64One == RoundNearestEven(0, WideOfNat(1), 0, FALSE)

F64Ten == RoundNearestEven(0, WideOfNat(10), 0, FALSE)

\* f64::powi for a non-negative exponent: square and multiply, every product
\* rounded (compiler-rt's __powidf2)
RECURSIVE PowiLoop(_, _, _)
PowiLoop(a, b, r) ==
  LET r2 == IF b % 2 = 1 THEN F64Mul(r, a) ELSE r
  IN IF b \div 2 = 0 THEN r2 ELSE PowiLoop(F64Mul(a, a), b \div 2, r2)

F64Powi(a, b) == PowiLoop(a, b, F64One)

\* x >= 0.0 (true of -0.0 as well)
F64Geq0(x) == x.sign = 0 \/ x.mant = <<>>

(***************************************************************************)
(* Bounds and inputs.                                                      *)
(***************************************************************************)
\* invocations of new and latest_round_data issued in one behaviour
MaxInvocations == 3

\* call_timeout is zero or MaxTimeout timer ticks
MaxTimeout == 1

Durations == {0, MaxTimeout}

Identifiers == {"ETH", "BTC"}

Addresses == {"0x9ef1B8c0E4F7dc8bF5719Ea496883DC6401d5b2e"}

FunctionNames == {"decimals", "latestRoundData"}

\* what include_str!("IAggregatorV3Interface.json") can hold: a description
\* that parses, with some of the two functions, or one that does not parse
Schemas ==
  {[wellformed |-> TRUE, functions |-> F] : F \in SUBSET FunctionNames}
    \cup {[wellformed |-> FALSE, functions |-> {}]}

\* ContractError values the transport or the contract can report
RemoteFailures == {"MiddlewareError", "Revert"}

\* U256 values the feed's decimals() can return: 8, 30, 264 = 256 + 8 and
\* 2^64 + 18
FeedDecimals ==
  {Wide(<<8>>), Wide(<<3, 0>>), Wide(<<2, 6, 4>>),
   Wide(<<1, 8, 4, 4, 6, 7, 4, 4, 0, 7, 3, 7, 0, 9, 5, 5, 1, 6, 3, 4>>)}

\* u128::MAX = 2^128 - 1
U128Max ==
  Wide(<<3, 4, 0, 2, 8, 2, 3, 6, 6, 9, 2, 0, 9, 3, 8, 4, 6, 3, 4,
         6, 3, 3, 7, 4, 6, 0, 7, 4, 3, 1, 7, 6, 8, 2, 1, 1, 4, 5, 5>>)

\* RoundCall's Ok tuples (round_id, answer, started_at, updated_at,
\* answered_in_round) the feed's latestRoundData() can return
RoundCalls ==
  {<<42, Wide(<<3, 1, 2, 3, 4, 5, 6, 7, 8, 9, 0, 0>>), 1000, 1005, 42>>,
   <<43, U128Max, 2000, 2007, 41>>,
   <<44, <<>>, 3000, 3009, 44>>}

(***************************************************************************)
(* Results.                                                                *)
(***************************************************************************)
Ok(v) == [tag |-> "Ok", value |-> v]

Err(e) == [tag |-> "Err", error |-> e]

Panic(msg) == [tag |-> "Panic", message |-> msg]

None == [tag |-> "None"]

\* ContractCallError's variants with their #[from] sources
AbiError(e) == [kind |-> "Abi", source |-> e]

TimeoutError(e) == [kind |-> "Timeout", source |-> e]

ContractError(e) == [kind |-> "Contract", source |-> e]

(***************************************************************************)
(* The pure parts of the two operations.                                   *)
(***************************************************************************)
\* a timeout that looks at the deadline only: the output of a future that
\* completed first is lost
timeout_strict(elapsed, output) == Err("TimeoutError")

\* async_std::future::timeout(dur, f).await: Ok(f's output) when f completes
\* before dur elapses, Err(TimeoutError) when dur elapses first
timeout(elapsed, output) ==
  IF elapsed THEN Err("TimeoutError") ELSE Ok(output)

\* `??` on Result<Result<T, ContractError>, TimeoutError>: the value, or the
\* error converted into ContractCallError
Propagate(awaited) ==
  IF awaited.tag = "Err" THEN Err(TimeoutError(awaited.error))
  ELSE IF awaited.value.tag = "Err" THEN Err(ContractError(awaited.value.error))
  ELSE awaited.value

\* U256::as_u64() as u8 where as_u64 does not panic: the low 8 bits
U8(v) == NatOfWide(LowBits(v, 8))

\* decimals() once the remote call has answered with response
decimals(response) ==
  IF response.tag = "Err" THEN response
  ELSE IF BitLen(response.value) > 64
  THEN Panic("Integer overflow when casting to u64")
  ELSE Ok(U8(response.value))

\* a new that falls back to a default client when the scale is not known
new_or_default(identifier, contract_address, call_timeout, awaited) ==
  LET d == Propagate(awaited)
  IN Ok([contract     |-> contract_address,
         decimals     |-> IF d.tag = "Err" THEN 0 ELSE d.value,
         identifier   |-> identifier,
         call_timeout |-> call_timeout])

\* ChainlinkContract::new from its await on
new(identifier, contract_address, call_timeout, awaited) ==
  LET d == Propagate(awaited)
  IN IF d.tag = "Err" THEN d
     ELSE Ok([contract     |-> contract_address,
              decimals     |-> d.value,
              identifier   |-> identifier,
              call_timeout |-> call_timeout])

\* a normalization that scales the wrong way: multiplies by 10^decimals
human_answer_times(answer, scale) ==
  LET float_answer == ParseF64(to_string(answer))
  IN IF ~float_answer.ok THEN Panic("unwrap on an Err value")
     ELSE Ok(F64Mul(float_answer.value, F64Powi(F64Ten, scale)))

\* a normalization that reads the raw answer as an i128: with its top bit
\* set it prints as a negative number
human_answer_signed(answer, scale) ==
  LET text         == IF BitLen(answer) = 128
                      THEN <<"-">> \o to_string(SubW(AddW(U128Max, WideOfNat(1)), answer))
                      ELSE to_string(answer)
      float_answer == ParseF64(text)
  IN IF ~float_answer.ok THEN Panic("unwrap on an Err value")
     ELSE Ok(F64Div(float_answer.value, F64Powi(F64Ten, scale)))

\* lines 99-103: the raw answer as a string, parsed as f64, divided by
\* 10f64.powi(decimals)
human_answer(answer, scale) ==
  LET float_answer == ParseF64(to_string(answer))
  IN IF ~float_answer.ok THEN Panic("unwrap on an Err value")
     ELSE Ok(F64Div(float_answer.value, F64Powi(F64Ten, scale)))

\* the u8 scales a Client can hold with the feeds above, and 0
Scales == {U8(v) : v \in FeedDecimals} \cup {0}

\* human_answer, evaluated once for the answers and scales of the model
HumanAnswers ==
  [a \in {t[2] : t \in RoundCalls}, d \in Scales |-> human_answer(a, d)]

\* a latest_round_data that binds the tuple's two timestamps and its two
\* round numbers the other way round
latest_round_data_swapped(self, awaited) ==
  LET r == Propagate(awaited)
  IN IF r.tag = "Err" THEN r
     ELSE LET human == HumanAnswers[r.value[2], self.decimals]
          IN IF human.tag = "Panic" THEN human
             ELSE Ok([identifier        |-> self.identifier,
                      round_id          |-> r.value[5],
                      answered_in_round |-> r.value[1],
                      started_at        |-> r.value[4],
                      updated_at        |-> r.value[3],
                      answer            |-> human.value])

\* ChainlinkContract::latest_round_data from its await on
latest_round_data(self, awaited) ==
  LET r == Propagate(awaited)
  IN IF r.tag = "Err" THEN r
     ELSE LET human == HumanAnswers[r.value[2], self.decimals]
          IN IF human.tag = "Panic" THEN human
             ELSE Ok([identifier        |-> self.identifier,
                      round_id          |-> r.value[1],
                      answered_in_round |-> r.value[5],
                      started_at        |-> r.value[3],
                      updated_at        |-> r.value[4],
                      answer            |-> human.value])

(***************************************************************************)
(* State.                                                                  *)
(***************************************************************************)
\* the application's tasks; each issues its invocations one after another
Callers == {"a", "b"}

\* the tasks that construct clients; every task queries them
Constructors == {"a"}

VARIABLES
  pc,            \* where each caller's invocation is
  waited,        \* the ticks the timer of each caller's invocation has counted
  abi,           \* the embedded interface description
  endpointUp,    \* whether the endpoint still answers calls
  feedDecimals,  \* what the feed's decimals() returns now
  clients,       \* the ChainlinkContract values new has returned
  task,          \* each caller's current invocation
  invoked,       \* invocations so far: of new, of latest_round_data per client
  received,      \* calls the endpoint has received: decimals, latestRoundData per client
  orphans        \* calls left behind by a timeout and still running

vars ==
  <<pc, waited, abi, endpointUp, feedDecimals, clients, task, invoked,
    received, orphans>>

\* an invocation of new: its arguments, the output of the future it awaits,
\* what the await gave and what the invocation returned
NewInvocation(identifier, contract_address, call_timeout, result) ==
  [op |-> "new", identifier |-> identifier,
   contract_address |-> contract_address, call_timeout |-> call_timeout,
   output |-> None, awaited |-> None, result |-> result]

\* an invocation of latest_round_data on client self, with the deadline it
\* read from it; earlier and stale record how it began: whether an invocation
\* on its client had returned, and whether the feed's decimals differed from
\* the client's
Query(self, call_timeout, earlier, stale, output, result) ==
  [op |-> "latest_round_data", self |-> self, call_timeout |-> call_timeout,
   earlier |-> earlier, stale |-> stale, output |-> output,
   awaited |-> IF output.tag = "None" THEN None ELSE timeout(FALSE, output),
   result |-> result]

Idle == [op |-> "none"]

Init ==
  /\ pc = [t \in Callers |-> "idle"]
  /\ waited = [t \in Callers |-> 0]
  /\ abi \in Schemas
  /\ endpointUp = TRUE
  /\ feedDecimals \in FeedDecimals
  /\ clients = <<>>
  /\ task = [t \in Callers |-> Idle]
  /\ invoked = [new |-> 0, latest_round_data |-> <<>>]
  /\ received = [decimals |-> 0, latestRoundData |-> <<>>]
  /\ orphans = 0

RECURSIVE Sum(_)
Sum(s) == IF s = <<>> THEN 0 ELSE Head(s) + Sum(Tail(s))

\* the invocations issued so far
Started == invoked.new + Sum(invoked.latest_round_data)

Awaiting(t) == pc[t] = "awaiting"

\* the latest_round_data invocations on client c that are at their await
Pending(c) ==
  {t \in Callers : Awaiting(t) /\ task[t].op = "latest_round_data"
                                /\ task[t].self = c}

\* the latest_round_data invocations on client c that have returned
Finished(c) == invoked.latest_round_data[c] - Cardinality(Pending(c))

\* a caller issues its next invocation once the last one has returned; a
\* panic ends the caller
Free(t) == pc[t] \in {"idle", "returned"}

\* a client that caches: only its first latestRoundData call is sent
SendCached(r, fn, c) ==
  IF fn = "decimals" THEN [r EXCEPT !.decimals = @ + 1]
  ELSE IF r.latestRoundData[c] > 0 THEN r
  ELSE [r EXCEPT !.latestRoundData[c] = @ + 1]

\* the endpoint's count of calls after one more call of fn from client c
Send(r, fn, c) ==
  IF fn = "decimals" THEN [r EXCEPT !.decimals = @ + 1]
  ELSE [r EXCEPT !.latestRoundData[c] = @ + 1]

(***************************************************************************)
(* new, up to its await: the schema is parsed (line 72), "decimals" is     *)
(* encoded (lines 56-57) and the call is sent; both unwraps panic.         *)
(***************************************************************************)
New(t, identifier, contract_address, call_timeout) ==
  /\ Free(t)
  /\ clients = <<>>
  /\ Started < MaxInvocations
  /\ waited' = [waited EXCEPT ![t] = 0]
  /\ IF ~abi.wellformed \/ "decimals" \notin abi.functions
     THEN /\ pc' = [pc EXCEPT ![t] = "panicked"]
          /\ task' = [task EXCEPT ![t] =
                 NewInvocation(identifier, contract_address, call_timeout,
                               Panic("unwrap on an Err value"))]
          /\ received' = received
     ELSE /\ pc' = [pc EXCEPT ![t] = "awaiting"]
          /\ task' = [task EXCEPT ![t] =
                 NewInvocation(identifier, contract_address, call_timeout, None)]
          /\ received' = Send(received, "decimals", 0)
  /\ invoked' = [invoked EXCEPT !.new = @ + 1]
  /\ UNCHANGED <<abi, endpointUp, feedDecimals, clients, orphans>>

(***************************************************************************)
(* latest_round_data on client c, up to its await: round_data encodes      *)
(* "latestRoundData" (line 88), where ? turns an AbiError into a           *)
(* ContractError that the caller's ?? wraps as Contract, or sends the      *)
(* call.                                                                   *)
(***************************************************************************)
LatestRoundData(t, c) ==
  /\ Free(t)
  /\ Started < MaxInvocations
  /\ c \in 1..Len(clients)
  /\ waited' = [waited EXCEPT ![t] = 0]
  /\ IF "latestRoundData" \notin abi.functions
     THEN /\ pc' = [pc EXCEPT ![t] = "returned"]
          /\ task' = [task EXCEPT ![t] =
                 Query(c, clients[c].call_timeout, Finished(c) > 0,
                       U8(feedDecimals) # clients[c].decimals, Err("AbiError"),
                       latest_round_data(clients[c],
                                         timeout(FALSE, Err("AbiError"))))]
          /\ received' = received
     ELSE /\ pc' = [pc EXCEPT ![t] = "awaiting"]
          /\ task' = [task EXCEPT ![t] =
                 Query(c, clients[c].call_timeout, Finished(c) > 0,
                       U8(feedDecimals) # clients[c].decimals, None, None)]
          /\ received' = Send(received, "latestRoundData", c)
  /\ invoked' = [invoked EXCEPT !.latest_round_data[c] = @ + 1]
  /\ UNCHANGED <<abi, endpointUp, feedDecimals, clients, orphans>>

\* the Ok values the endpoint can answer to caller t's call
Answers(t) == IF task[t].op = "new" THEN {feedDecimals} ELSE RoundCalls

\* a latest_round_data that reads the feed's decimals again for each Round
ReturnReread(t, awaited) ==
  IF task[t].op = "new"
  THEN new(task[t].identifier, task[t].contract_address, task[t].call_timeout,
           awaited)
  ELSE latest_round_data([clients[task[t].self]
                            EXCEPT !.decimals = U8(feedDecimals)], awaited)

\* invocations that share a slot: one that ends while another on its client
\* is at its await finds the slot taken and gives up
ReturnShared(t, awaited) ==
  IF task[t].op = "new"
  THEN new(task[t].identifier, task[t].contract_address, task[t].call_timeout,
           awaited)
  ELSE IF Pending(task[t].self) \ {t} # {}
  THEN Err(TimeoutError("TimeoutError"))
  ELSE latest_round_data(clients[task[t].self], awaited)

\* what caller t's invocation returns from its await on
Return(t, awaited) ==
  IF task[t].op = "new"
  THEN new(task[t].identifier, task[t].contract_address, task[t].call_timeout,
           awaited)
  ELSE latest_round_data(clients[task[t].self], awaited)

\* new's Ok value becomes a client of the application, with no history
Constructed(t, result) == task[t].op = "new" /\ result.tag = "Ok"

\* a client that a timeout poisons: its deadline drops to zero
KeepPoisoned(t, result) ==
  /\ clients' = IF Constructed(t, result) THEN Append(clients, result.value)
                ELSE IF task[t].op = "latest_round_data" /\ result.tag = "Err"
                        /\ result.error.kind = "Timeout"
                THEN [clients EXCEPT ![task[t].self].call_timeout = 0]
                ELSE clients
  /\ invoked' = IF Constructed(t, result)
                THEN [invoked EXCEPT !.latest_round_data = Append(@, 0)]
                ELSE invoked
  /\ received' = IF Constructed(t, result)
                 THEN [received EXCEPT !.latestRoundData = Append(@, 0)]
                 ELSE received

Keep(t, result) ==
  IF Constructed(t, result)
  THEN /\ clients' = Append(clients, result.value)
       /\ invoked' = [invoked EXCEPT !.latest_round_data = Append(@, 0)]
       /\ received' = [received EXCEPT !.latestRoundData = Append(@, 0)]
  ELSE UNCHANGED <<clients, invoked, received>>

(***************************************************************************)
(* The remote call of caller t's invocation completes with response before *)
(* the deadline: the invocation resumes after its await and runs to its    *)
(* end.                                                                    *)
(***************************************************************************)
Resume(t, response) ==
  LET output  == IF task[t].op = "new" THEN decimals(response) ELSE response
      awaited == timeout(FALSE, output)
      result  == IF output.tag = "Panic" THEN output ELSE Return(t, awaited)
  IN /\ pc' = [pc EXCEPT ![t] = IF result.tag = "Panic" THEN "panicked"
                                ELSE "returned"]
     /\ task' = [task EXCEPT ![t].output = output,
                             ![t].awaited = awaited,
                             ![t].result = result]
     /\ Keep(t, result)

Respond(t) ==
  /\ Awaiting(t)
  /\ endpointUp
  /\ waited[t] < task[t].call_timeout
  /\ \/ \E f \in RemoteFailures : Resume(t, Err(f))
     \/ \E v \in Answers(t) : Resume(t, Ok(v))
  /\ UNCHANGED <<waited, abi, endpointUp, feedDecimals, orphans>>

\* one tick of the timer of caller t's invocation
Tick(t) ==
  /\ Awaiting(t)
  /\ waited[t] < task[t].call_timeout
  /\ waited' = [waited EXCEPT ![t] = @ + 1]
  /\ UNCHANGED <<pc, abi, endpointUp, feedDecimals, clients, task, invoked,
                 received, orphans>>

\* an await with no deadline: nothing ends it but the response
NoDeadline(t) ==
  /\ FALSE
  /\ UNCHANGED vars

(***************************************************************************)
(* call_timeout elapses before the remote call of caller t's invocation    *)
(* completes: timeout gives Err(TimeoutError), the invocation returns it   *)
(* and its remote call is left behind.                                     *)
(***************************************************************************)
Elapse(t) ==
  /\ Awaiting(t)
  /\ waited[t] = task[t].call_timeout
  /\ pc' = [pc EXCEPT ![t] = "returned"]
  /\ LET awaited == timeout(TRUE, None)
         result  == Return(t, awaited)
     IN /\ task' = [task EXCEPT ![t].awaited = awaited, ![t].result = result]
        /\ Keep(t, result)
  /\ orphans' = orphans + 1
  /\ UNCHANGED <<waited, abi, endpointUp, feedDecimals>>

\* a transport that matches responses to whoever waits: the response of a
\* call left behind is handed to an invocation that is at its await
LateResponseDelivered ==
  /\ orphans > 0
  /\ endpointUp
  /\ orphans' = orphans - 1
  /\ \E t \in Callers :
       /\ Awaiting(t)
       /\ task[t].op = "latest_round_data"
       /\ \E v \in RoundCalls : Resume(t, Ok(v))
  /\ UNCHANGED <<waited, abi, endpointUp, feedDecimals>>

\* a call left behind completes at the endpoint; nobody awaits it any more
LateResponse ==
  /\ orphans > 0
  /\ endpointUp
  /\ orphans' = orphans - 1
  /\ UNCHANGED <<pc, waited, abi, endpointUp, feedDecimals, clients, task,
                 invoked, received>>

\* the feed's owner changes its decimals
FeedSetDecimals(v) ==
  /\ v # feedDecimals
  /\ feedDecimals' = v
  /\ UNCHANGED <<pc, waited, abi, endpointUp, clients, task, invoked, received,
                 orphans>>

\* the endpoint stops answering for good
EndpointDown ==
  /\ endpointUp
  /\ endpointUp' = FALSE
  /\ UNCHANGED <<pc, waited, abi, feedDecimals, clients, task, invoked,
                 received, orphans>>

Next ==
  \/ \E t \in Constructors, id \in Identifiers, a \in Addresses,
        d \in Durations : New(t, id, a, d)
  \/ \E t \in Callers, c \in 1..MaxInvocations : LatestRoundData(t, c)
  \/ \E t \in Callers : Respond(t)
  \/ \E t \in Callers : Tick(t)
  \/ \E t \in Callers : Elapse(t)
  \/ LateResponse
  \/ \E v \in FeedDecimals : FeedSetDecimals(v)
  \/ EndpointDown

Spec == Init /\ [][Next]_vars

\* where each caller's invocation is and what its timer has counted
position == <<pc, waited>>

\* the runtime's timers fire: a pending deadline keeps ticking and elapses
FairSpec ==
  Spec /\ \A t \in Callers : WF_position(Tick(t)) /\ WF_position(Elapse(t))

(***************************************************************************)
(* Outcomes.                                                               *)
(***************************************************************************)
IsTimeout(r) == r.tag = "Err" /\ r.error.kind = "Timeout"

IsRemote(r) == r.tag = "Err" /\ r.error.kind = "Contract"

IsSchema(r) == r.tag = "Err" /\ r.error.kind = "Abi"

Ended(t) == pc[t] \in {"returned", "panicked"}

\* caller t's invocation is at its await with its deadline reached, and this
\* step ends it
Expires(t, op) ==
  /\ task[t].op = op
  /\ Awaiting(t)
  /\ waited[t] = task[t].call_timeout
  /\ pc'[t] # "awaiting"

Queries(c) ==
  {t \in Callers : task[t].op = "latest_round_data" /\ task[t].self = c
                     /\ Ended(t)}

(***************************************************************************)
(* C1: when the decimals call of new has not completed as call_timeout     *)
(* elapses, new returns a Timeout error, and that invocation gives the     *)
(* application no Client: the clients it holds are the same after the      *)
(* step.                                                                   *)
(***************************************************************************)
C1_NewTimeout ==
  [][\A t \in Callers :
       Expires(t, "new") => /\ pc'[t] = "returned"
                            /\ IsTimeout(task'[t].result)
                            /\ clients' = clients]_position

\* a new with a positive call_timeout has returned Timeout
C1_Witness ==
  \E t \in Callers : /\ task[t].op = "new"
                     /\ pc[t] = "returned"
                     /\ task[t].call_timeout > 0
                     /\ waited[t] = task[t].call_timeout
                     /\ IsTimeout(task[t].result)
                     /\ clients = <<>>

C3_SchemaError ==
  /\ \A t \in Callers :
       /\ (task[t].op = "new" /\ Ended(t) /\ abi.wellformed
             /\ "decimals" \notin abi.functions)
            => IsSchema(task[t].result)
       /\ (task[t].op = "latest_round_data" /\ Ended(t)
             /\ "latestRoundData" \notin abi.functions)
            => IsSchema(task[t].result)
  /\ "decimals" \notin abi.functions => received.decimals = 0
  /\ "latestRoundData" \notin abi.functions
       => \A c \in 1..Len(clients) : received.latestRoundData[c] = 0

(***************************************************************************)
(* C4: an invocation whose remote operation completed before the deadline  *)
(* returns that operation's outcome: its value in an Ok (the scale of the  *)
(* Client, the round of the Round), its failure wrapped in a Remote error, *)
(* and never a Timeout error.                                              *)
(***************************************************************************)
C4_OutcomeForwarded ==
  \A t \in Callers :
    (Ended(t) /\ waited[t] < task[t].call_timeout
       /\ task[t].output.tag # "None")
    => /\ ~IsTimeout(task[t].result)
       /\ task[t].output.tag = "Err"
            => /\ task[t].result.tag = "Err"
               /\ task[t].result.error = ContractError(task[t].output.error)
       /\ (task[t].output.tag = "Ok" /\ task[t].op = "new")
            => /\ task[t].result.tag = "Ok"
               /\ task[t].result.value.decimals = task[t].output.value
       /\ (task[t].output.tag = "Ok" /\ task[t].op = "latest_round_data")
            => /\ task[t].result.tag = "Ok"
               /\ task[t].result.value.round_id = task[t].output.value[1]

\* one query answered in time with a tuple and one answered in time with a
\* revert, by a client whose construction was answered in time
C4_Witness ==
  \E t \in Callers, u \in Callers, c \in 1..Len(clients) :
    /\ {t, u} \subseteq Queries(c)
    /\ waited[t] < task[t].call_timeout
    /\ task[t].output.tag = "Ok"
    /\ task[t].result.tag = "Ok"
    /\ waited[u] < task[u].call_timeout
    /\ task[u].output.tag = "Err"
    /\ task[u].output.error = "Revert"
    /\ IsRemote(task[u].result)
    /\ task[u].result.error.source = "Revert"

(***************************************************************************)
(* C5: with a schema that encodes the calls, the endpoint has received one *)
(* decimals call per invocation of new and, from each Client, one          *)
(* latestRoundData call per invocation of latest_round_data on it, in      *)
(* flight or ended, whatever the outcomes were.                            *)
(***************************************************************************)
C5_OneCallPerInvocation ==
  /\ (abi.wellformed /\ "decimals" \in abi.functions)
       => received.decimals = invoked.new
  /\ "latestRoundData" \in abi.functions
       => \A c \in 1..Len(clients) :
            received.latestRoundData[c] = invoked.latest_round_data[c]

\* two queries of a client have ended, one timed out and one with a Remote
\* error, and the endpoint has received two calls from it
C5_Witness ==
  \E t \in Callers, u \in Callers, c \in 1..Len(clients) :
    /\ {t, u} \subseteq Queries(c)
    /\ IsTimeout(task[t].result)
    /\ IsRemote(task[u].result)
    /\ task[u].output.tag = "Err"
    /\ received.latestRoundData[c] = 2

(***************************************************************************)
(* C6: once the endpoint has stopped answering, every invocation of new    *)
(* and of latest_round_data that is at its await eventually returns, and   *)
(* returns a Timeout error.                                                *)
(***************************************************************************)
C6_EventuallyTimeout ==
  \A t \in Callers :
    (Awaiting(t) /\ ~endpointUp)
      ~> (pc[t] = "returned" /\ IsTimeout(task[t].result))

\* with the endpoint down, a query with a positive call_timeout has waited
\* it out and returned Timeout, its call still unanswered
C6_Witness ==
  \E t \in Callers :
    /\ ~endpointUp
    /\ pc[t] = "returned"
    /\ task[t].op = "latest_round_data"
    /\ task[t].call_timeout > 0
    /\ waited[t] = task[t].call_timeout
    /\ IsTimeout(task[t].result)
    /\ orphans > 0

(***************************************************************************)
(* The Rounds the callers hold.                                            *)
(***************************************************************************)
Rounds ==
  {t \in Callers : /\ pc[t] = "returned"
                   /\ task[t].op = "latest_round_data"
                   /\ task[t].result.tag = "Ok"}

\* the raw answer of the tuple caller t's call was answered with
Raw(t) == task[t].output.value[2]

Answer(t) == task[t].result.value.answer

\* decimal_string(a) parsed as a float, divided by 10^scale, for the answers
\* and scales of the model
Normalized ==
  [a \in {r[2] : r \in RoundCalls}, d \in Scales |->
     F64Div(ParseF64(to_string(a)).value, F64Powi(F64Ten, d))]

RawExample == Wide(<<3, 1, 2, 3, 4, 5, 6, 7, 8, 9, 0, 0>>)

\* 3123.456789 as an f64: 6868554116722776 * 2^-41
AnswerExample ==
  [sign |-> 0,
   mant |-> Wide(<<6, 8, 6, 8, 5, 5, 4, 1, 1, 6, 7, 2, 2, 7, 7, 6>>),
   exp  |-> -41]

(***************************************************************************)
(* C7: the answer of every Round is the decimal string of the raw answer   *)
(* parsed as a float and divided by 10^scale, scale being the Client's;    *)
(* two Rounds of the same raw answer and scale have the same answer; and   *)
(* raw answer 312345678900 with scale 8 gives 3123.456789.                 *)
(***************************************************************************)
C7_Normalized ==
  \A t \in Rounds :
    /\ Answer(t) = Normalized[Raw(t), clients[task[t].self].decimals]
    /\ \A u \in Rounds :
         (Raw(u) = Raw(t) /\ clients[task[u].self].decimals
                               = clients[task[t].self].decimals)
         => Answer(u) = Answer(t)
    /\ (Raw(t) = RawExample /\ clients[task[t].self].decimals = 8)
         => Answer(t) = AnswerExample

\* a client of scale 8 has returned a Round for raw answer 312345678900 and
\* one of scale 30 a Round for the same raw answer
C7_Witness ==
  \E t \in Rounds :
    /\ Raw(t) = RawExample
    /\ clients[task[t].self].decimals \in {8, 30}
    /\ Answer(t) = Normalized[RawExample, clients[task[t].self].decimals]
    /\ clients[task[t].self].decimals = 8 => Answer(t) = AnswerExample

(***************************************************************************)
(* C8: the answer of every Round is greater than or equal to 0, whatever   *)
(* raw answer the call returned and whatever the Client's scale.           *)
(***************************************************************************)
C8_AnswerNonNegative == \A t \in Rounds : F64Geq0(Answer(t))

\* a Round for the raw answer u128::MAX, whose answer is positive
C8_Witness ==
  \E t \in Rounds : /\ Raw(t) = U128Max
                    /\ Answer(t).sign = 0
                    /\ Answer(t).mant # <<>>

(***************************************************************************)
(* C9: no step changes the scale a Client holds, the endpoint receives a   *)
(* decimals call only as an invocation of new begins, and every Round,     *)
(* also of an invocation that began with the feed's decimals different     *)
(* from the Client's scale, is normalized with the Client's scale.         *)
(***************************************************************************)
C9_ScaleReadOnce ==
  /\ [](\A t \in Rounds :
          Answer(t) = Normalized[Raw(t), clients[task[t].self].decimals])
  /\ [][/\ \A c \in 1..Len(clients) :
             clients'[c].decimals = clients[c].decimals
        /\ received'.decimals # received.decimals
             => invoked'.new = invoked.new + 1]_<<clients, received, invoked>>

\* a Round of an invocation that began after the feed's decimals had come to
\* differ from its client's scale, with the answer the client's scale gives
\* and not the one the feed's decimals would give
C9_Witness ==
  \E t \in Rounds :
    /\ task[t].stale
    /\ U8(feedDecimals) # clients[task[t].self].decimals
    /\ Answer(t) = Normalized[Raw(t), clients[task[t].self].decimals]
    /\ Answer(t) # Normalized[Raw(t), U8(feedDecimals)]

(***************************************************************************)
(* C10: no step changes a Client, and what an invocation of                *)
(* latest_round_data returns follows from what its own await gave: a       *)
(* Timeout error when its deadline elapsed, a Remote error wrapping the    *)
(* failure its call completed with, a Round when it completed with a       *)
(* tuple; two invocations on a Client whose awaits gave the same return    *)
(* the same, whatever else was in flight.                                  *)
(***************************************************************************)
C10_NoInterference ==
  /\ [](\A c \in 1..Len(clients) : \A t \in Queries(c) :
          /\ task[t].awaited.tag = "Err" => IsTimeout(task[t].result)
          /\ (task[t].awaited.tag = "Ok" /\ task[t].awaited.value.tag = "Err")
               => /\ IsRemote(task[t].result)
                  /\ task[t].result.error.source = task[t].awaited.value.error
          /\ (task[t].awaited.tag = "Ok" /\ task[t].awaited.value.tag = "Ok")
               => task[t].result.tag = "Ok"
          /\ \A u \in Queries(c) :
               task[u].awaited = task[t].awaited
               => task[u].result = task[t].result)
  /\ [][\A c \in 1..Len(clients) : clients'[c] = clients[c]]_clients

\* two invocations on a client were in flight together, each began before
\* the other had returned; one returned a Round and the other a Timeout error
C10_Witness ==
  \E t \in Callers, u \in Callers, c \in 1..Len(clients) :
    /\ invoked.latest_round_data[c] = 2
    /\ {t, u} \subseteq Queries(c)
    /\ ~task[t].earlier
    /\ ~task[u].earlier
    /\ task[t].result.tag = "Ok"
    /\ IsTimeout(task[u].result)


(***************************************************************************)
(* C11: when new succeeds, the scale of the Client it returns is the       *)
(* decimals value the feed answered its decimals call with, for every      *)
(* value the feed can answer, also one above 255.                          *)
(***************************************************************************)
C11_ScaleIsFeedDecimals ==
  [][\A t \in Callers :
       (task[t].op = "new" /\ Awaiting(t) /\ pc'[t] = "returned"
          /\ task'[t].result.tag = "Ok")
       => /\ Answers(t) = {feedDecimals}
          /\ WideOfNat(task'[t].result.value.decimals) = feedDecimals]_position

(***************************************************************************)
(* C12: in every Round, round_id, started_at, updated_at and               *)
(* answered_in_round are the first, third, fourth and fifth element of the *)
(* tuple the invocation's call was answered with, unmodified, and          *)
(* identifier is the identifier that was given to the new that made the    *)
(* Client: the Client's identifier, which new took from its argument and   *)
(* no step changes.                                                        *)
(***************************************************************************)
C12_FieldsPassThrough ==
  /\ [](\A t \in Rounds :
          /\ task[t].output.value \in RoundCalls
          /\ task[t].result.value.round_id = task[t].output.value[1]
          /\ task[t].result.value.started_at = task[t].output.value[3]
          /\ task[t].result.value.updated_at = task[t].output.value[4]
          /\ task[t].result.value.answered_in_round = task[t].output.value[5]
          /\ task[t].result.value.identifier
               = clients[task[t].self].identifier
          /\ \A u \in Callers :
               (task[u].op = "new" /\ task[u].result.tag = "Ok")
               => task[t].result.value.identifier = task[u].identifier)
  /\ [][/\ \A c \in 1..Len(clients) :
             clients'[c].identifier = clients[c].identifier
        /\ \A t \in Callers :
             (task[t].op = "new" /\ Len(clients') = Len(clients) + 1
                /\ Awaiting(t) /\ pc'[t] = "returned")
             => clients'[Len(clients')].identifier = task[t].identifier]_clients

\* a Round for the tuple (43, u128::MAX, 2000, 2007, 41), whose elements all
\* differ, from the Client that a new given "BTC" returned
C12_Witness ==
  \E t \in Rounds, u \in Callers :
    /\ task[u].op = "new"
    /\ task[u].result.tag = "Ok"
    /\ task[u].identifier = "BTC"
    /\ task[t].output.value = <<43, U128Max, 2000, 2007, 41>>
    /\ task[t].result.value.round_id = 43
    /\ task[t].result.value.started_at = 2000
    /\ task[t].result.value.updated_at = 2007
    /\ task[t].result.value.answered_in_round = 41
    /\ task[t].result.value.identifier = "BTC"

(***************************************************************************)
(* C13: every invocation of new and of latest_round_data whose call the    *)
(* endpoint has answered, with whatever decimals value, tuple or failure,  *)
(* has returned, with a Client or a Round or with an error of the Schema,  *)
(* the Timeout or the Remote kind: no response makes it abort.  (An        *)
(* invocation that aborts before its call is sent is C3's case.)           *)
(***************************************************************************)
C13_FourOutcomes ==
  \A t \in Callers :
    (Ended(t) /\ task[t].output.tag # "None")
    => /\ pc[t] = "returned"
       /\ \/ task[t].result.tag = "Ok"
          \/ IsSchema(task[t].result)
          \/ IsTimeout(task[t].result)
          \/ IsRemote(task[t].result)

=============================================================================
